---- MODULE Spec2Model ----
(***************************************************************************)
(* Model of graph_coloring.py: generate_intersections builds an ordered    *)
(* adjacency dictionary from a shapefile reader, greedy_coloring assigns   *)
(* a colour to every city of that dictionary.                              *)
(*                                                                         *)
(* A geometry is the set of cells it covers; two geometries intersect when *)
(* they share a cell.  A Python dict / OrderedDict is a sequence of        *)
(* [name, neighbors] entries in insertion order.                           *)
(***************************************************************************)
EXTENDS Integers, Sequences, FiniteSets, TLC

\* ---------------------------------------------------------------- bounds
MaxRecords == 3
MaxPalette == 3

Names      == {"", "A", "B", "C"}
Cells      == {"p", "q"}
Geometries == SUBSET Cells \ {{}}
Colors     == {"red", "green", "blue"}

Records  == [name : Names, geometry : Geometries]
Readers  == UNION {[1..n -> Records] : n \in 0..MaxRecords}
Palettes == UNION {[1..n -> Colors] : n \in 0..MaxPalette}

VARIABLES
    reader,          \* reader.records(): the argument of generate_intersections
    intersections,   \* the dict built by generate_intersections
    i,               \* position of city1 in the outer loop
    j,               \* position of city2 in the inner loop
    neighbors_map,   \* the OrderedDict returned / passed to greedy_coloring
    colors,          \* the palette list, shuffled in place
    colormap,        \* the dict built by greedy_coloring
    k,               \* position of city in greedy_coloring's loop
    exception,       \* the exception greedy_coloring raised, if any
    pc

vars == <<reader, intersections, i, j, neighbors_map, colors, colormap, k,
          exception, pc>>

\* ---------------------------------------------------------------- helpers
NoException == [type |-> "None", city |-> ""]
EmptyDict   == [n \in {} |-> "red"]

\* city1.geometry.intersects(city2.geometry)
Intersects(g1, g2) == g1 \cap g2 # {}

\* the keys of a dict held as a sequence of entries
Keys(d) == {d[x].name : x \in 1..Len(d)}

\* d[name], for a name that is a key of d
Lookup(d, name) == d[CHOOSE x \in 1..Len(d) : d[x].name = name].neighbors

\* the elements of a list
Elems(s) == {s[x] : x \in 1..Len(s)}

\* d[name].append(item)
AppendTo(d, name, item) ==
    [x \in 1..Len(d) |->
        IF d[x].name = name
        THEN [d[x] EXCEPT !.neighbors = Append(@, item)]
        ELSE d[x]]

\* line 38: the record is skipped by the outer loop
SkipOuter(name1, d) == name1 = "" \/ name1 \in Keys(d)

\* a careless variant that forgets the dedup test of line 43
SkipInnerNoDedup(name1, name2, d) == name2 = "" \/ name1 = name2

\* a careless variant that forgets the empty-name test of line 43
SkipInnerKeepEmpty(name1, name2, d) ==
    name1 = name2 \/ name2 \in Elems(Lookup(d, name1))

\* line 43: the record is skipped by the inner loop
SkipInner(name1, name2, d) ==
    name2 = "" \/ name1 = name2 \/ name2 \in Elems(Lookup(d, name1))

\* insert entry e behind every entry at least as long (stable, descending)
RECURSIVE InsertDesc(_, _)
InsertDesc(s, e) ==
    IF s = <<>> THEN <<e>>
    ELSE IF Len(Head(s).neighbors) >= Len(e.neighbors)
         THEN <<Head(s)>> \o InsertDesc(Tail(s), e)
         ELSE <<e>> \o s

\* insert entry e behind every entry at most as long (stable, ascending)
RECURSIVE InsertAsc(_, _)
InsertAsc(s, e) ==
    IF s = <<>> THEN <<e>>
    ELSE IF Len(Head(s).neighbors) <= Len(e.neighbors)
         THEN <<Head(s)>> \o InsertAsc(Tail(s), e)
         ELSE <<e>> \o s

RECURSIVE SortAsc(_)
SortAsc(d) ==
    IF d = <<>> THEN <<>>
    ELSE InsertAsc(SortAsc(SubSeq(d, 1, Len(d) - 1)), d[Len(d)])

Reverse(s) == [x \in 1..Len(s) |-> s[Len(s) + 1 - x]]

\* a careless variant: sorted(...) ascending, then the list reversed
SortedReversedList(d) == Reverse(SortAsc(d))

\* lines 50-51: OrderedDict over sorted(keys, key=len(neighbors), reverse=True);
\* Python's sort is stable, also with reverse=True
RECURSIVE SortedByNeighbors(_)
SortedByNeighbors(d) ==
    IF d = <<>> THEN <<>>
    ELSE InsertDesc(SortedByNeighbors(SubSeq(d, 1, Len(d) - 1)), d[Len(d)])

\* random.shuffle(colors): every rearrangement of the list
Shuffles(s) ==
    {[x \in 1..Len(s) |-> s[p[x]]] :
        p \in {q \in [1..Len(s) -> 1..Len(s)] :
                 \A a, b \in 1..Len(s) : a # b => q[a] # q[b]}}

\* a careless variant that lets an uncoloured neighbour block every colour
UsedByNeighborOrUncolored(neighbors, color, cm) ==
    \E x \in 1..Len(neighbors) :
        neighbors[x] \notin DOMAIN cm \/ cm[neighbors[x]] = color

\* a careless variant that looks at the first neighbour only
UsedByFirstNeighbor(neighbors, color, cm) ==
    /\ neighbors # <<>>
    /\ neighbors[1] \in DOMAIN cm
    /\ cm[neighbors[1]] = color

\* a careless variant in which only the last neighbour decides
UsedByLastNeighbor(neighbors, color, cm) ==
    /\ neighbors # <<>>
    /\ neighbors[Len(neighbors)] \in DOMAIN cm
    /\ cm[neighbors[Len(neighbors)]] = color

\* lines 89-91: the inner for loop breaks on a neighbour holding the colour
UsedByNeighbor(neighbors, color, cm) ==
    \E x \in 1..Len(neighbors) :
        neighbors[x] \in DOMAIN cm /\ cm[neighbors[x]] = color

\* a careless variant whose loop over colors stops before the last colour
FirstFreeSkipsLast(order, neighbors, cm) ==
    LET free == {x \in 1..(Len(order) - 1) :
                    ~UsedByNeighbor(neighbors, order[x], cm)}
    IN  IF free = {} THEN 0
        ELSE CHOOSE x \in free : \A y \in free : x <= y

\* lines 87-94: position of the first colour of the list no neighbour uses,
\* 0 when the loop over colors ends without assigning
FirstFree(order, neighbors, cm) ==
    LET free == {x \in 1..Len(order) : ~UsedByNeighbor(neighbors, order[x], cm)}
    IN  IF free = {} THEN 0
        ELSE CHOOSE x \in free : \A y \in free : x <= y

\* a careless variant that stops one city early
ItemsExhaustedEarly(pos, d) == pos >= Len(d)

\* line 84: the loop over neighbors_map.items() has run out
ItemsExhausted(pos, d) == pos > Len(d)

\* ---------------------------------------------------------------- actions
Init ==
    /\ reader \in Readers
    /\ intersections = <<>>
    /\ i = 1
    /\ j = 1
    /\ neighbors_map = <<>>
    /\ colors = <<>>
    /\ colormap = EmptyDict
    /\ k = 1
    /\ exception = NoException
    /\ pc = "outer"

\* lines 36-40: one pass of the outer loop up to the start of the inner loop
OuterStep ==
    /\ pc = "outer"
    /\ i <= Len(reader)
    /\ LET name1 == reader[i].name
       IN  IF SkipOuter(name1, intersections)
           THEN /\ i' = i + 1
                /\ UNCHANGED <<intersections, j, pc>>
           ELSE /\ intersections' =
                      Append(intersections, [name |-> name1, neighbors |-> <<>>])
                /\ j' = 1
                /\ pc' = "inner"
                /\ UNCHANGED i
    /\ UNCHANGED <<reader, neighbors_map, colors, colormap, k, exception>>

\* lines 41-48: one pass of the inner loop
InnerStep ==
    /\ pc = "inner"
    /\ j <= Len(reader)
    /\ LET name1 == reader[i].name
           name2 == reader[j].name
       IN  IF SkipInner(name1, name2, intersections)
           THEN UNCHANGED intersections
           ELSE IF Intersects(reader[i].geometry, reader[j].geometry)
                THEN intersections' = AppendTo(intersections, name1, name2)
                ELSE UNCHANGED intersections
    /\ j' = j + 1
    /\ UNCHANGED <<reader, i, neighbors_map, colors, colormap, k, exception, pc>>

\* line 41: the inner loop has run out, back to the outer loop
InnerDone ==
    /\ pc = "inner"
    /\ j > Len(reader)
    /\ i' = i + 1
    /\ pc' = "outer"
    /\ UNCHANGED <<reader, intersections, j, neighbors_map, colors, colormap,
                   k, exception>>

\* lines 49-51: the outer loop has run out, the sorted OrderedDict is returned
GenerateReturn ==
    /\ pc = "outer"
    /\ i > Len(reader)
    /\ neighbors_map' = SortedByNeighbors(intersections)
    /\ pc' = "generated"
    /\ UNCHANGED <<reader, intersections, i, j, colors, colormap, k, exception>>

\* lines 53, 82: greedy_coloring is called with the returned dictionary and a
\* palette; the frame of generate_intersections is gone
GreedyCall ==
    /\ pc = "generated"
    /\ \E palette \in Palettes : colors' = palette
    /\ colormap' = EmptyDict
    /\ k' = 1
    /\ reader' = <<>>
    /\ intersections' = <<>>
    /\ i' = 1
    /\ j' = 1
    /\ pc' = "coloring"
    /\ UNCHANGED <<neighbors_map, exception>>

\* lines 84-96: one pass of the loop over the cities
ColorCity ==
    /\ pc = "coloring"
    /\ ~ItemsExhausted(k, neighbors_map)
    /\ \E order \in Shuffles(colors) :
          LET city      == neighbors_map[k].name
              neighbors == neighbors_map[k].neighbors
              pick      == FirstFree(order, neighbors, colormap)
          IN  /\ colors' = order
              /\ IF pick # 0
                 THEN /\ colormap' = (city :> order[pick]) @@ colormap
                      /\ k' = k + 1
                      /\ UNCHANGED <<exception, pc>>
                 ELSE /\ exception' = [type |-> "Exception", city |-> city]
                      /\ pc' = "raised"
                      /\ UNCHANGED <<colormap, k>>
    /\ UNCHANGED <<reader, intersections, i, j, neighbors_map>>

\* line 97: the loop has run out, colormap is returned
GreedyReturn ==
    /\ pc = "coloring"
    /\ ItemsExhausted(k, neighbors_map)
    /\ pc' = "returned"
    /\ UNCHANGED <<reader, intersections, i, j, neighbors_map, colors, colormap,
                   k, exception>>

Next ==
    \/ OuterStep
    \/ InnerStep
    \/ InnerDone
    \/ GenerateReturn
    \/ GreedyCall
    \/ ColorCity
    \/ GreedyReturn

Spec == Init /\ [][Next]_vars

\* ---------------------------------------------------------------- properties
Ended == pc \in {"returned", "raised"}

Distinct(s) == \A a, b \in 1..Len(s) : a # b => s[a] # s[b]

\* the longest neighbour list of the dictionary, 0 for the empty dictionary
MaxNeighbors(d) ==
    IF d = <<>> THEN 0
    ELSE LET lens == {Len(d[x].neighbors) : x \in 1..Len(d)}
         IN  CHOOSE m \in lens : \A n \in lens : n <= m

\* position of the first record of the reader carrying the name
FirstOcc(name) ==
    CHOOSE x \in 1..Len(reader) :
        reader[x].name = name /\ \A y \in 1..(x - 1) : reader[y].name # name

NamedInReader == {reader[x].name : x \in 1..Len(reader)} \ {""}

\* C1: in a returned colormap no city has the colour of any city of its
\* neighbour list, whatever the dictionary and the shuffles were.
C1_NoNeighborSharesColor ==
    pc = "returned" =>
        \A x \in 1..Len(neighbors_map) :
            \A n \in Elems(neighbors_map[x].neighbors) :
                colormap[neighbors_map[x].name] # colormap[n]

\* C2: in a returned colormap every city differs in colour from each city of
\* its neighbour list that comes earlier in the dictionary's order.
C2_EarlierNeighborsDiffer ==
    pc = "returned" =>
        \A x \in 1..Len(neighbors_map) : \A y \in 1..(x - 1) :
            neighbors_map[y].name \in Elems(neighbors_map[x].neighbors) =>
                colormap[neighbors_map[x].name] # colormap[neighbors_map[y].name]

C2_Witness ==
    /\ pc = "returned"
    /\ \E x \in 1..Len(neighbors_map) : \E y \in 1..(x - 1) :
          /\ neighbors_map[y].name \in Elems(neighbors_map[x].neighbors)
          /\ Len(neighbors_map[x].neighbors) = 2

\* C3: with a palette of distinct colours at least one longer than the longest
\* neighbour list, greedy_coloring never raises and returns a colormap whose
\* keys are exactly the dictionary's keys.
C3_SufficientPaletteSucceeds ==
    (Ended /\ Distinct(colors) /\ Len(colors) >= MaxNeighbors(neighbors_map) + 1) =>
        /\ pc = "returned"
        /\ DOMAIN colormap = Keys(neighbors_map)

C3_Witness ==
    /\ pc = "returned"
    /\ Distinct(colors)
    /\ MaxNeighbors(neighbors_map) = 2
    /\ Len(colors) = 3
    /\ DOMAIN colormap = Keys(neighbors_map)

\* C4: greedy_coloring raises at a city exactly when, at its turn, every colour
\* of the palette is held by an already coloured neighbour (uncoloured
\* neighbours block nothing); the exception names that city, the colours given
\* so far stay as they are, and exactly the cities before it hold a colour.
C4_FailsExactlyWhenBlocked ==
    /\ [][(pc = "coloring" /\ ~ItemsExhausted(k, neighbors_map)) =>
            LET city == neighbors_map[k].name
                used == {colormap[n] :
                           n \in Elems(neighbors_map[k].neighbors) \cap DOMAIN colormap}
            IN  /\ (pc' = "raised") <=> (Elems(colors) \subseteq used)
                /\ pc' = "raised" =>
                      /\ exception' = [type |-> "Exception", city |-> city]
                      /\ colormap' = colormap
                /\ pc' # "raised" =>
                      /\ pc' = "coloring"
                      /\ k' = k + 1
                      /\ DOMAIN colormap' = DOMAIN colormap \cup {city}
                      /\ \A n \in DOMAIN colormap : colormap'[n] = colormap[n]]_vars
    /\ [](pc = "raised" =>
            /\ exception.city = neighbors_map[k].name
            /\ DOMAIN colormap = {neighbors_map[x].name : x \in 1..(k - 1)})

C4_Witness ==
    /\ pc = "raised"
    /\ k >= 2
    /\ colors # <<>>
    /\ \E n \in Elems(neighbors_map[k].neighbors) : n \notin DOMAIN colormap
    /\ exception.city = neighbors_map[k].name

\* C5 as stated: with an empty palette greedy_coloring always raises, and the
\* error is not the one that names an uncolourable city.
C5_EmptyPaletteMalformed ==
    (Ended /\ colors = <<>>) =>
        /\ pc = "raised"
        /\ exception.city \notin Keys(neighbors_map)

\* C5 amended: with an empty palette greedy_coloring returns the empty colormap
\* for the empty dictionary and otherwise raises the could-not-find-colour
\* exception naming the first city of the dictionary, nothing coloured.
C5_EmptyPaletteNamesFirstCity ==
    (Ended /\ colors = <<>>) =>
        /\ colormap = EmptyDict
        /\ IF neighbors_map = <<>>
           THEN pc = "returned" /\ exception = NoException
           ELSE /\ pc = "raised"
                /\ exception = [type |-> "Exception", city |-> neighbors_map[1].name]

C5_Witness ==
    /\ pc = "raised"
    /\ colors = <<>>
    /\ Len(neighbors_map) >= 2
    /\ exception.city = neighbors_map[1].name

\* C6: the neighbour list of R1 holds R2 exactly when the first record named R1
\* intersects the first record named R2; later records of a name play no part.
C6_FirstRecordsDecide ==
    pc = "generated" =>
        \A r1, r2 \in NamedInReader :
            r1 # r2 =>
                (r2 \in Elems(Lookup(neighbors_map, r1))
                    <=> Intersects(reader[FirstOcc(r1)].geometry,
                                   reader[FirstOcc(r2)].geometry))

\* C7: the returned dictionary iterates in non-increasing neighbour-list length,
\* and entries of equal length keep the order in which their names first
\* occurred in the reader.
C7_SortedStable ==
    pc = "generated" =>
        \A a, b \in 1..Len(neighbors_map) :
            a < b =>
                /\ Len(neighbors_map[a].neighbors) >= Len(neighbors_map[b].neighbors)
                /\ Len(neighbors_map[a].neighbors) = Len(neighbors_map[b].neighbors)
                      => FirstOcc(neighbors_map[a].name) < FirstOcc(neighbors_map[b].name)

C7_Witness ==
    /\ pc = "generated"
    /\ \E a, b \in 1..Len(neighbors_map) :
          /\ a < b
          /\ Len(neighbors_map[a].neighbors) = Len(neighbors_map[b].neighbors)
    /\ \E a, b \in 1..Len(neighbors_map) :
          /\ a < b
          /\ FirstOcc(neighbors_map[a].name) > FirstOcc(neighbors_map[b].name)

NoSelfNoDuplicate(d) ==
    \A x \in 1..Len(d) :
        /\ d[x].name \notin Elems(d[x].neighbors)
        /\ Distinct(d[x].neighbors)

\* C8: at every point of generate_intersections and in its result no neighbour
\* list holds its own city's name or holds a name twice.
C8_NoSelfNoDuplicate ==
    /\ NoSelfNoDuplicate(intersections)
    /\ NoSelfNoDuplicate(neighbors_map)

C8_Witness ==
    /\ pc = "generated"
    /\ \E a, b, c \in 1..Len(reader) :
          /\ a < b
          /\ reader[a].name = reader[b].name
          /\ reader[c].name \notin {"", reader[a].name}
          /\ c = FirstOcc(reader[c].name)
          /\ Intersects(reader[c].geometry, reader[a].geometry)
          /\ Intersects(reader[c].geometry, reader[b].geometry)
          /\ reader[a].name \in Elems(Lookup(neighbors_map, reader[c].name))

EmptyNameAbsent(d) ==
    \A x \in 1..Len(d) : d[x].name # "" /\ "" \notin Elems(d[x].neighbors)

\* C9: the empty name is never a key nor a member of a neighbour list, and a
\* reader without a non-empty name yields the empty dictionary.
C9_EmptyNameExcluded ==
    /\ EmptyNameAbsent(intersections)
    /\ EmptyNameAbsent(neighbors_map)
    /\ (pc = "generated" /\ NamedInReader = {}) => neighbors_map = <<>>

C9_Witness ==
    /\ pc = "generated"
    /\ \E a, b \in 1..Len(reader) :
          /\ reader[a].name = ""
          /\ reader[b].name # ""
          /\ b = FirstOcc(reader[b].name)
          /\ Intersects(reader[b].geometry, reader[a].geometry)
    /\ neighbors_map # <<>>

IsTriangle(d) ==
    /\ Len(d) = 3
    /\ \A x \in 1..3 :
          /\ Len(d[x].neighbors) = 2
          /\ Elems(d[x].neighbors) = Keys(d) \ {d[x].name}

\* C10: on three cities that each list the other two, a palette of two distinct
\* colours always ends in the exception naming one of the three, a palette of
\* three distinct colours always returns three pairwise different colours.
C10_Triangle ==
    (Ended /\ IsTriangle(neighbors_map) /\ Distinct(colors)) =>
        /\ Len(colors) = 2 =>
              /\ pc = "raised"
              /\ exception.type = "Exception"
              /\ exception.city \in Keys(neighbors_map)
        /\ Len(colors) = 3 =>
              /\ pc = "returned"
              /\ DOMAIN colormap = Keys(neighbors_map)
              /\ \A m, n \in Keys(neighbors_map) : m # n => colormap[m] # colormap[n]

C10_Witness ==
    /\ pc = "returned"
    /\ IsTriangle(neighbors_map)
    /\ Distinct(colors)
    /\ Len(colors) = 3
    /\ Cardinality({colormap[n] : n \in DOMAIN colormap}) = 3

====
